---- MODULE Spec2Model ----
(***************************************************************************)
(* Sampling-based global planner: the ROS wrapper SamplePlanner            *)
(* (initialize, makePlan, _getPlanFromPath) driving InformedRRT::plan      *)
(* (informed RRT*: uniform sampling until the first goal connection, then  *)
(* sampling from the ellipse of cost c_best_).                             *)
(*                                                                         *)
(* Numbers.  Grid coordinates and cell indices are integers.  World        *)
(* coordinates are kept in half cells (resolution 1, origin (0,0)), so     *)
(* that a cell centre (mx + 0.5) and a pose on a cell edge are both exact. *)
(* Path costs (double in the code) are fixed point, Scale units per cell;  *)
(* comparisons of distances against max_dist_ and r_ are done exactly, on  *)
(* squared distances.                                                      *)
(***************************************************************************)
EXTENDS Integers, Sequences, FiniteSets, TLC

\* ----------------------------------------------------------- configuration
\* GlobalPlanner::nx_, ny_: the costmap's size in cells
nx_ == 3
ny_ == 2
\* iteration budget (sample_points), steering step (sample_max_d) and
\* optimization radius (optimization_r), in cells
sample_num_ == 2
max_dist_ == 3
r_ == 2
\* cap on the passes of the main loop of one plan() call that the model follows
MaxPasses == 4
\* fixed-point resolution of costs, and resolution of the unit-disk samples:
\* the sampler draws u, v from {-(DiskRes-1)/DiskRes, ..., (DiskRes-1)/DiskRes}
Scale == 10
DiskRes == 3

\* std::numeric_limits<double>::max(): "no solution yet"
DBL_MAX == 1000000

map_size_ == nx_ * ny_

\* the costmap snapshots considered: sets of lethal cells
Costmaps == { {}, {<<1, 1>>} }

KnownPlanners == {"rrt", "rrt_star", "rrt_connect", "informed_rrt", "quick_informed_rrt"}
PlannerNames == {"rrt", "informed_rrt", "dijkstra"}
NullPlanner == "nullptr"

\* poses handed to makePlan, world coordinates in half cells
StartPoses == { <<-1, 1>>, <<0, 0>> }
GoalPoses == { <<2, 0>>, <<4, 2>>, <<1, 9>> }
\* what the caller's plan vector may hold on entry
CallerPlans == { <<>>, << <<7, 7>> >> }

\* ------------------------------------------------------------ arithmetic
Abs(n) == IF n < 0 THEN -n ELSE n

\* static_cast<int>(num / den), den > 0: truncation toward zero
Trunc(num, den) == IF num >= 0 THEN num \div den ELSE -((-num) \div den)

RECURSIVE SqrtSearch(_, _, _)
SqrtSearch(n, lo, hi) ==
    IF lo >= hi THEN lo
    ELSE LET mid == (lo + hi + 1) \div 2
         IN  IF mid * mid <= n THEN SqrtSearch(n, mid, hi) ELSE SqrtSearch(n, lo, mid - 1)

\* floor of the square root
ISqrt(n) == IF n <= 0 THEN 0 ELSE SqrtSearch(n, 0, n)

\* a * sqrt(q) <= b, decided exactly on integers (q >= 0)
SqrtLe(a, b, q) ==
    IF a <= 0 /\ b >= 0 THEN TRUE
    ELSE IF a > 0 /\ b < 0 THEN FALSE
    ELSE IF a > 0 THEN a * a * q <= b * b
    ELSE a * a * q >= b * b

\* ------------------------------------------------- grid and geometry
Node(x, y, g, id, pid) == [x |-> x, y |-> y, g |-> g, id |-> id, pid |-> pid]

\* index = x + nx * y, also for coordinates outside the grid
grid2Index(x, y) == x + nx_ * y

\* floor conversion; fails left of / below the origin and beyond the extent
world2Map(w) ==
    IF w[1] < 0 \/ w[2] < 0 THEN [ok |-> FALSE, x |-> 0, y |-> 0]
    ELSE LET mx == w[1] \div 2
             my == w[2] \div 2
         IN  IF mx < nx_ /\ my < ny_ THEN [ok |-> TRUE, x |-> mx, y |-> my]
             ELSE [ok |-> FALSE, x |-> 0, y |-> 0]

\* cell-centre conversion: (mx + 0.5, my + 0.5), in half cells
map2World(mx, my) == <<2 * mx + 1, 2 * my + 1>>

DistSq(a, b) == (a.x - b.x) * (a.x - b.x) + (a.y - b.y) * (a.y - b.y)

\* helper::dist, hypot in cells, fixed point
dist(a, b) == ISqrt(Scale * Scale * DistSq(a, b))

\* the cost array is read at grid2Index(x, y): a coordinate outside the grid
\* aliases another cell when the index is in range and reads past the array
\* (value oob) when it is not
IsLethal(grid, x, y, oob) ==
    LET id == grid2Index(x, y)
    IN  IF id >= 0 /\ id < map_size_ THEN <<id % nx_, id \div nx_>> \in grid ELSE oob

\* Bresenham rasterization of the segment, both end cells included
RECURSIVE LineCells(_, _, _, _, _, _, _, _, _)
LineCells(x, y, x1, y1, dx, dy, sx, sy, err) ==
    IF x = x1 /\ y = y1 THEN {<<x, y>>}
    ELSE LET e2 == 2 * err
             stepx == e2 >= dy
             stepy == e2 <= dx
             xn == IF stepx THEN x + sx ELSE x
             yn == IF stepy THEN y + sy ELSE y
             en == err + (IF stepx THEN dy ELSE 0) + (IF stepy THEN dx ELSE 0)
         IN  {<<x, y>>} \cup LineCells(xn, yn, x1, y1, dx, dy, sx, sy, en)

\* true iff some cell of the segment a-b is lethal
_isAnyObstacleInPath(grid, a, b, oob) ==
    LET dx == Abs(b.x - a.x)
        dy == -Abs(b.y - a.y)
        sx == IF a.x < b.x THEN 1 ELSE -1
        sy == IF a.y < b.y THEN 1 ELSE -1
    IN  \E c \in LineCells(a.x, a.y, b.x, b.y, dx, dy, sx, sy, dx + dy) :
            IsLethal(grid, c[1], c[2], oob)

\* ------------------------------------------- steering, choose-parent, rewire
\* id of the tree node nearest to s (linear scan); ties go to the smaller id
NearestId(list, s) ==
    CHOOSE i \in DOMAIN list : \A j \in DOMAIN list :
        \/ DistSq(list[i], s) < DistSq(list[j], s)
        \/ DistSq(list[i], s) = DistSq(list[j], s) /\ i <= j

\* round(max_dist_ * d / sqrt(q)): one coordinate of max_dist_ * unit(sample - nearest)
RoundUnit(d, q) ==
    CHOOSE k \in -max_dist_ .. max_dist_ :
        /\ SqrtLe(2 * k - 1, 2 * max_dist_ * d, q)
        /\ ~SqrtLe(2 * k + 1, 2 * max_dist_ * d, q)

\* the cell steer() aims at: the sample when it is within max_dist_, else the
\* cell max_dist_ away from the nearest node in the sample's direction
SteerTarget(near, s) ==
    LET q == DistSq(near, s)
    IN  IF q <= max_dist_ * max_dist_ THEN <<s.x, s.y>>
        ELSE <<near.x + RoundUnit(s.x - near.x, q), near.y + RoundUnit(s.y - near.y, q)>>

\* the neighbours of n (within r_) that see n
Neighbours(grid, list, n, oob) ==
    { i \in DOMAIN list : /\ DistSq(list[i], n) <= r_ * r_
                          /\ ~_isAnyObstacleInPath(grid, list[i], n, oob) }

\* choose-parent: the new node at cell t below the cheapest neighbour that
\* sees it, or below the nearest node when no neighbour is cheaper
ChooseParent(list, nb, near, t) ==
    LET at      == Node(t[1], t[2], 0, grid2Index(t[1], t[2]), -1)
        Cost(i) == list[i].g + dist(list[i], at)
        better  == { i \in nb : Cost(i) < near.g + dist(near, at) }
    IN  IF better = {} THEN Node(at.x, at.y, near.g + dist(near, at), at.id, near.id)
        ELSE LET parent == CHOOSE i \in better : \A j \in better :
                               Cost(i) < Cost(j) \/ (Cost(i) = Cost(j) /\ i <= j)
             IN  Node(at.x, at.y, Cost(parent), at.id, parent)

\* rewire: a neighbour that is cheaper through the new node moves below it
Rewire(list, nb, new) ==
    [ i \in DOMAIN list |->
        IF i \in nb /\ i # new.pid /\ new.g + dist(new, list[i]) < list[i].g
        THEN [list[i] EXCEPT !.pid = new.id, !.g = new.g + dist(new, list[i])]
        ELSE list[i] ]

\* the new node at cell t and the sample list after rewiring around it
Extend(list, nb, near, t) ==
    [node |-> ChooseParent(list, nb, near, t),
     list |-> Rewire(list, nb, ChooseParent(list, nb, near, t))]

\* steer from near to cell t: invalid (id = -1) when the segment is blocked or
\* the cell is already in the sample list
SteerTo(grid, list, near, t, oob) ==
    IF \/ _isAnyObstacleInPath(grid, near, Node(t[1], t[2], 0, 0, -1), oob)
       \/ grid2Index(t[1], t[2]) \in DOMAIN list
    THEN [node |-> Node(t[1], t[2], 0, -1, -1), list |-> list]
    ELSE Extend(list, Neighbours(grid, list, Node(t[1], t[2], 0, 0, -1), oob), near, t)

\* RRTStar::_findNearestPoint: steer from the nearest node toward the sample,
\* choose the cheapest parent in the neighbourhood, rewire the neighbourhood.
\* Returns the new node (id = -1: invalid) and the sample list after rewiring.
_findNearestPoint(grid, list, s, oob) ==
    SteerTo(grid, list, list[NearestId(list, s)],
            SteerTarget(list[NearestId(list, s)], s), oob)

\* --------------------------------------------------------------- samplers
\* RRT::_generateRandomNode: any cell of the grid
UniformNodes ==
    { Node(x, y, 0, grid2Index(x, y), -1) : x \in 0 .. nx_ - 1, y \in 0 .. ny_ - 1 }

\* the points (u / DiskRes, v / DiskRes) the rejection loop lets through
UnitDisk ==
    { uv \in (-(DiskRes - 1) .. (DiskRes - 1)) \X (-(DiskRes - 1) .. (DiskRes - 1)) :
        uv[1] * uv[1] + uv[2] * uv[2] < DiskRes * DiskRes }

\* InformedRRT::_transform of the disk point (u / DiskRes, v / DiskRes)
_transform(start, goal, c_best, c_min, u, v) ==
    LET center_x == (start.x + goal.x) \div 2
        center_y == (start.y + goal.y) \div 2
        dx == goal.x - start.x
        dy == goal.y - start.y
        \* 2a = c_best, 2c = c_min, 2b = sqrt(c_best^2 - c_min^2)
        bb == ISqrt(c_best * c_best - c_min * c_min)
        \* cos(theta) = dx / d, sin(theta) = -dy / d; theta = 0 when d = 0
        den == IF c_min = 0 THEN 2 * DiskRes * Scale ELSE 2 * DiskRes * c_min
        cs == IF c_min = 0 THEN 1 ELSE dx
        sn == IF c_min = 0 THEN 0 ELSE -dy
        tx == Trunc(c_best * cs * u + bb * sn * v + center_x * den, den)
        ty == Trunc(-c_best * sn * u + bb * cs * v + center_y * den, den)
    IN  Node(tx, ty, 0, grid2Index(tx, ty), -1)

\* RRT::_generateRandomNode on a seeded generator: the draw at position pos of
\* the stream is the one already made there under this seed, if any
UniformDraw(tp, pos) == IF pos < Len(tp) THEN {tp[pos + 1]} ELSE UniformNodes

\* InformedRRT::_generateRandomNode: the sampler used and the nodes it can
\* return.  The ellipse branch seeds a fresh engine from std::random_device on
\* every try and retries until the test on the index passes.
_generateRandomNode(start, goal, c_best, c_min, tp, pos) ==
    IF c_best < DBL_MAX
    THEN [mode  |-> "ellipse",
          nodes |-> { n \in { _transform(start, goal, c_best, c_min, uv[1], uv[2]) :
                                uv \in UnitDisk } : n.id < map_size_ - 1 }]
    ELSE [mode |-> "uniform", nodes |-> UniformDraw(tp, pos)]

\* ------------------------------------------------------ sample set, path
\* std::unordered_map::insert: no effect when the key is already present
Insert(list, n) == IF n.id \in DOMAIN list THEN list ELSE list @@ (n.id :> n)

\* walk pid from the node with index id back to the start, collecting cells
RECURSIVE WalkToStart(_, _, _, _)
WalkToStart(list, id, start, fuel) ==
    IF id = start.id THEN << <<start.x, start.y>> >>
    ELSE IF id \notin DOMAIN list \/ fuel = 0 THEN <<>>
    ELSE LET rest == WalkToStart(list, list[id].pid, start, fuel - 1)
         IN  IF rest = <<>> THEN <<>> ELSE << <<list[id].x, list[id].y>> >> \o rest

\* GlobalPlanner::_convertClosedListToPath: the cells from goal back to start
_convertClosedListToPath(list, start, goal) ==
    WalkToStart(list, goal.id, start, Cardinality(DOMAIN list))

\* ------------------------------------------------- InformedRRT::plan, pieces
\* Accepted with the validity test after the push_back instead of before it
AcceptedUnchecked(list, ex, n) ==
    IF n.id = -1 THEN [list |-> list, expand |-> Append(ex, n)]
    ELSE [list |-> Insert(list, n), expand |-> Append(ex, n)]

\* lines 68-74: an invalid node is dropped, a valid one joins the sample set
\* and the expansion trace
Accepted(list, ex, n) ==
    IF n.id = -1 THEN [list |-> list, expand |-> ex]
    ELSE [list |-> Insert(list, n), expand |-> Append(ex, n)]

\* lines 68-69 and 88: the counter advances on the passes that reach the end
NextIteration(it, n) == IF n.id = -1 THEN it ELSE it + 1

\* GoalUpdate without the test cost < c_best_: the last connection wins
GoalUpdateLast(grid, n, goal, bp, c_best, oob) ==
    IF n.id = -1 THEN [best_parent |-> bp, c_best |-> c_best]
    ELSE IF /\ DistSq(n, goal) <= max_dist_ * max_dist_
            /\ ~_isAnyObstacleInPath(grid, n, goal, oob)
         THEN [best_parent |-> n.id, c_best |-> dist(n, goal) + n.g]
         ELSE [best_parent |-> bp, c_best |-> c_best]

\* lines 76-86: goal connection, keeping the cheapest one
GoalUpdate(grid, n, goal, bp, c_best, oob) ==
    IF n.id = -1 THEN [best_parent |-> bp, c_best |-> c_best]
    ELSE LET d    == dist(n, goal)
             cost == d + n.g
         IN  IF /\ DistSq(n, goal) <= max_dist_ * max_dist_
                /\ ~_isAnyObstacleInPath(grid, n, goal, oob)
                /\ cost < c_best
             THEN [best_parent |-> n.id, c_best |-> cost]
             ELSE [best_parent |-> bp, c_best |-> c_best]

\* lines 91-100: attach the goal below best_parent and extract the path
PlanResult(list, start, goal, bp, c_best) ==
    IF bp # -1
    THEN LET goal_star == Node(goal.x, goal.y, c_best, grid2Index(goal.x, goal.y), bp)
             list2 == Insert(list, goal_star)
         IN  [found |-> TRUE, list |-> list2,
              path |-> _convertClosedListToPath(list2, start, goal)]
    ELSE [found |-> FALSE, list |-> list, path |-> <<>>]

\* ----------------------------------------------------- SamplePlanner, pieces
\* _getPlanFromPath walking the path front to back
_getPlanFromPathForward(p) == [ i \in 1 .. Len(p) |-> map2World(p[i][1], p[i][2]) ]

\* SamplePlanner::_getPlanFromPath: the path back to front, cell centres
_getPlanFromPath(p) == [ i \in 1 .. Len(p) |-> map2World(p[Len(p) + 1 - i][1], p[Len(p) + 1 - i][2]) ]

\* ConvertPlan without the fallback to the history plan
ConvertPlanNoFallback(found, p, gp, hist) ==
    IF found /\ _getPlanFromPath(p) # <<>>
    THEN [plan |-> Append(_getPlanFromPath(p), gp),
          history |-> Append(_getPlanFromPath(p), gp)]
    ELSE [plan |-> <<>>, history |-> hist]

\* makePlan lines 186-205: the plan handed back and the history plan kept
ConvertPlan(found, p, gp, hist) ==
    IF found
    THEN LET pl == _getPlanFromPath(p)
         IN  IF pl # <<>>
             THEN [plan |-> Append(pl, gp), history |-> Append(pl, gp)]
             ELSE [plan |-> <<>>, history |-> hist]
    ELSE IF Len(hist) > 0
         THEN [plan |-> hist, history |-> hist]
         ELSE [plan |-> <<>>, history |-> hist]

\* OffGrid without the test of the goal
OffGridStartOnly(sp, gp) == ~world2Map(sp).ok

\* makePlan lines 149-169: start or goal off the costmap
OffGrid(sp, gp) == ~world2Map(sp).ok \/ ~world2Map(gp).ok

\* ------------------------------------------------------------------ state
VARIABLES
    costmap,        \* the lethal cells of the costmap
    initialized_,   \* SamplePlanner members
    g_planner_,
    planner_name_,
    history_plan_,
    pc,             \* "idle", "loop" (in InformedRRT::plan), "other" (in another
                    \* planner's plan), "planned" (plan returned), "crashed"
    start_pose,     \* makePlan arguments and result
    goal_pose,
    plan,
    ret,
    exit,           \* where the last makePlan call returned
    start_,         \* InformedRRT members and the locals of plan()
    goal_,
    sample_list_,
    expand,
    path,
    path_found,
    c_best_,
    c_min_,
    best_parent,
    iteration,
    sample_node,    \* history: the node the ellipse sampler returned in the last pass
    passes,         \* history: passes of the main loop in this plan() call
    draw_mode,      \* history: the sampler used by the last pass
    null_deref,     \* history: g_planner_ was dereferenced while null
    planner_called, \* history: this makePlan call has called plan()
    last_good,      \* history: the plan returned by the last call whose plan() succeeded
    seeded,         \* the RNG stream: whether the caller fixes the seed, the
    tape,           \* uniform draws made under it so far, and the position in it
    rng_pos,
    first           \* history: what the first plan() call under the seed returned

wrapper == <<costmap, initialized_, g_planner_, planner_name_, history_plan_>>
callio  == <<start_pose, goal_pose, plan, ret, exit>>
planner == <<start_, goal_, sample_list_, expand, path, path_found, c_best_, c_min_,
             best_parent, iteration, sample_node>>
rng     == <<seeded, tape, rng_pos>>
history == <<passes, draw_mode, null_deref, planner_called, last_good, first>>
vars    == <<wrapper, pc, callio, planner, rng, history>>

NoNode == Node(0, 0, 0, -1, -1)
NoResult == [found |-> FALSE, path |-> <<>>, expand |-> <<>>, valid |-> FALSE]

\* the state after SamplePlanner::SamplePlanner()
Constructed ==
    /\ costmap \in Costmaps
    /\ initialized_ = FALSE
    /\ g_planner_ = NullPlanner
    /\ planner_name_ = ""
    /\ history_plan_ = <<>>
    /\ pc = "idle"
    /\ start_pose = <<0, 0>> /\ goal_pose = <<0, 0>>
    /\ plan = <<>> /\ ret = FALSE /\ exit = "none"
    /\ start_ = NoNode /\ goal_ = NoNode
    /\ sample_list_ = <<>> /\ expand = <<>> /\ path = <<>> /\ path_found = FALSE
    /\ c_best_ = 0 /\ c_min_ = 0 /\ best_parent = -1 /\ iteration = 0
    /\ sample_node = NoNode
    /\ passes = 0 /\ draw_mode = "none" /\ null_deref = FALSE
    /\ planner_called = FALSE /\ last_good = <<>>
    /\ tape = <<>> /\ rng_pos = 0 /\ first = NoResult

Init == Constructed /\ seeded = FALSE

\* ----------------------------------------------- SamplePlanner::initialize
\* a known planner name, or a second call (which only warns)
Initialize(name) ==
    /\ pc = "idle"
    /\ name \in KnownPlanners
    /\ IF initialized_
       THEN UNCHANGED <<planner_name_, g_planner_, initialized_>>
       ELSE /\ planner_name_' = name
            /\ g_planner_' = name
            /\ initialized_' = TRUE
    /\ UNCHANGED <<costmap, history_plan_, pc, callio, planner, rng, history>>

\* an unknown planner name: g_planner_ stays null and line 100 calls
\* g_planner_->setFactor() through it.  The call either faults or goes
\* through, and then initialize() runs to its end.
InitializeUnknown(name) ==
    /\ pc = "idle"
    /\ ~initialized_
    /\ name \notin KnownPlanners
    /\ planner_name_' = name
    /\ g_planner_' = NullPlanner
    /\ null_deref' = TRUE
    /\ \/ pc' = "crashed" /\ initialized_' = FALSE
       \/ pc' = "idle" /\ initialized_' = TRUE
    /\ UNCHANGED <<costmap, history_plan_, callio, planner, rng,
                   passes, draw_mode, planner_called, last_good, first>>

\* -------------------------------------------------- SamplePlanner::makePlan
\* line 130 on a wrapper without a planner: the lock is taken through the null
\* g_planner_.  The call faults, or goes through; then an uninitialized wrapper
\* returns false at line 135, and an initialized one reaches the frame check
\* and, past it, world2Map() through the null planner again.
MakePlanNoPlanner(sp, gp, frame_ok, caller_plan) ==
    /\ pc = "idle"
    /\ g_planner_ = NullPlanner
    /\ null_deref' = TRUE
    /\ start_pose' = sp /\ goal_pose' = gp
    /\ planner_called' = FALSE
    /\ \/ pc' = "crashed" /\ plan' = caller_plan /\ ret' = FALSE /\ exit' = "fault"
       \/ /\ ~initialized_
          /\ pc' = "idle" /\ plan' = caller_plan /\ ret' = FALSE /\ exit' = "uninitialized"
       \/ /\ initialized_ /\ ~frame_ok
          /\ pc' = "idle" /\ plan' = <<>> /\ ret' = FALSE /\ exit' = "frame"
       \/ /\ initialized_ /\ frame_ok
          /\ \/ pc' = "crashed" /\ plan' = <<>> /\ ret' = FALSE /\ exit' = "fault"
             \/ pc' = "idle" /\ plan' = <<>> /\ ret' \in BOOLEAN /\ exit' = "undefined"
    /\ UNCHANGED <<wrapper, planner, rng, passes, draw_mode, last_good, first>>

\* lines 138-169: the caller's plan is cleared, then the frame and the two poses are
\* checked; each failure returns false
MakePlanReject(sp, gp, frame_ok) ==
    /\ pc = "idle"
    /\ g_planner_ # NullPlanner
    /\ initialized_
    /\ ~frame_ok \/ OffGrid(sp, gp)
    /\ start_pose' = sp /\ goal_pose' = gp
    /\ planner_called' = FALSE
    /\ plan' = <<>>
    /\ ret' = FALSE
    /\ exit' = IF ~frame_ok THEN "frame"
               ELSE IF ~world2Map(sp).ok THEN "start_off" ELSE "goal_off"
    /\ UNCHANGED <<wrapper, pc, planner, rng, passes, draw_mode, null_deref, last_good, first>>

\* lines 138-184 with both poses on the grid, and InformedRRT::plan lines
\* 44-60: the call reaches g_planner_->plan(), which starts its main loop
EnterPlan(sp, gp) ==
    /\ g_planner_ # NullPlanner
    /\ initialized_
    /\ ~OffGrid(sp, gp)
    /\ start_pose' = sp /\ goal_pose' = gp
    /\ plan' = <<>>
    /\ planner_called' = TRUE
    /\ LET sm == world2Map(sp)
           gm == world2Map(gp)
           start_node == Node(sm.x, sm.y, 0, grid2Index(sm.x, sm.y), -1)
           goal_node  == Node(gm.x, gm.y, 0, grid2Index(gm.x, gm.y), -1)
       IN  IF g_planner_ = "informed_rrt"
           THEN /\ pc' = "loop"
                /\ path' = <<>>
                /\ expand' = <<start_node>>
                /\ c_best_' = DBL_MAX
                /\ c_min_' = dist(start_node, goal_node)
                /\ best_parent' = -1
                /\ start_' = start_node /\ goal_' = goal_node
                /\ sample_list_' = Insert(<<>>, start_node)
                /\ iteration' = 0
                /\ passes' = 0
                /\ draw_mode' = "none"
                /\ UNCHANGED <<path_found, sample_node>>
           ELSE /\ pc' = "other"
                /\ path' = <<>> /\ expand' = <<>>
                /\ start_' = start_node /\ goal_' = goal_node
                /\ UNCHANGED <<path_found, sample_list_, c_best_, c_min_, best_parent,
                               iteration, sample_node, passes, draw_mode>>
    /\ exit' = "running"
    /\ UNCHANGED <<wrapper, ret, seeded, null_deref, last_good>>

\* a call under a fresh seed
MakePlan(sp, gp) ==
    /\ pc = "idle"
    /\ EnterPlan(sp, gp)
    /\ tape' = <<>> /\ rng_pos' = 0 /\ first' = NoResult

\* the same call once more under the same seed: the generator restarts
MakePlanAgain ==
    /\ pc = "idle"
    /\ seeded /\ first.valid /\ exit = "done"
    /\ EnterPlan(start_pose, goal_pose)
    /\ rng_pos' = 0
    /\ UNCHANGED <<tape, first>>

\* ------------------------------------------------------- InformedRRT::plan
\* lines 66-88 for the sample s drawn by sampler mode and the result res of
\* _findNearestPoint
LoopBody(mode, s, res, oob) ==
    /\ sample_node' = IF mode = "ellipse" THEN s ELSE NoNode
    /\ sample_list_' = Accepted(res.list, expand, res.node).list
    /\ expand' = Accepted(res.list, expand, res.node).expand
    /\ best_parent' = GoalUpdate(costmap, res.node, goal_, best_parent, c_best_, oob).best_parent
    /\ c_best_' = GoalUpdate(costmap, res.node, goal_, best_parent, c_best_, oob).c_best
    /\ iteration' = NextIteration(iteration, res.node)
    /\ draw_mode' = mode
    /\ tape' = IF seeded /\ mode = "uniform" /\ rng_pos >= Len(tape)
               THEN Append(tape, s) ELSE tape
    /\ rng_pos' = IF seeded /\ mode = "uniform" THEN rng_pos + 1 ELSE rng_pos

\* the pass that draws s
PassWith(gen, oob) ==
    \E s \in gen.nodes :
        LoopBody(gen.mode, s, _findNearestPoint(costmap, sample_list_, s, oob), oob)

\* one pass of the main loop, lines 61-89
PlanPass ==
    /\ pc = "loop"
    /\ iteration < sample_num_
    /\ passes < MaxPasses
    /\ \E oob \in BOOLEAN :
         PassWith(_generateRandomNode(start_, goal_, c_best_, c_min_, tape, rng_pos), oob)
    /\ passes' = passes + 1
    /\ UNCHANGED <<wrapper, pc, callio, start_, goal_, path, path_found, c_min_, seeded,
                   null_deref, planner_called, last_good, first>>

\* the loop is over, lines 91-100
PlanReturn ==
    /\ pc = "loop"
    /\ iteration >= sample_num_
    /\ LET res == PlanResult(sample_list_, start_, goal_, best_parent, c_best_)
       IN  /\ sample_list_' = res.list
           /\ path' = res.path
           /\ path_found' = res.found
           /\ first' = IF seeded /\ ~first.valid
                       THEN [found |-> res.found, path |-> res.path, expand |-> expand,
                             valid |-> TRUE]
                       ELSE first
    /\ pc' = "planned"
    /\ UNCHANGED <<wrapper, callio, start_, goal_, expand, c_best_, c_min_, best_parent,
                   iteration, sample_node, rng, passes, draw_mode, null_deref,
                   planner_called, last_good>>

\* plan() of one of the other planners: it fails, or finds the straight path
PlanOther ==
    /\ pc = "other"
    /\ \E found \in BOOLEAN :
         /\ path_found' = found
         /\ path' = IF found THEN << <<goal_.x, goal_.y>>, <<start_.x, start_.y>> >> ELSE <<>>
    /\ pc' = "planned"
    /\ UNCHANGED <<wrapper, callio, start_, goal_, sample_list_, expand, c_best_, c_min_,
                   best_parent, iteration, sample_node, rng, history>>

\* makePlan after plan(), lines 186-214
MakePlanFinish ==
    /\ pc = "planned"
    /\ LET cp == ConvertPlan(path_found, path, goal_pose, history_plan_)
       IN  /\ plan' = cp.plan
           /\ history_plan_' = cp.history
           /\ ret' = (cp.plan # <<>>)
           /\ last_good' = IF path_found /\ cp.plan # <<>> THEN cp.plan ELSE last_good
    /\ exit' = "done"
    /\ pc' = "idle"
    /\ UNCHANGED <<costmap, initialized_, g_planner_, planner_name_, start_pose, goal_pose,
                   planner, rng, passes, draw_mode, null_deref, planner_called, first>>

\* ---------------------------------------------------------- specifications
Next ==
    \/ \E name \in PlannerNames : Initialize(name)
    \/ \E name \in PlannerNames : InitializeUnknown(name)
    \/ \E sp \in StartPoses, gp \in GoalPoses, f \in BOOLEAN, cp \in CallerPlans :
          MakePlanNoPlanner(sp, gp, f, cp)
    \/ \E sp \in StartPoses, gp \in GoalPoses, f \in BOOLEAN : MakePlanReject(sp, gp, f)
    \/ \E sp \in StartPoses, gp \in GoalPoses : MakePlan(sp, gp)
    \/ PlanPass
    \/ PlanReturn
    \/ PlanOther
    \/ MakePlanFinish

Spec == Init /\ [][Next]_vars

\* the same program with a caller that fixes the RNG seed and repeats its call
InitSeeded == Constructed /\ seeded = TRUE

NextSeeded ==
    \/ \E name \in PlannerNames : Initialize(name)
    \/ \E sp \in StartPoses, gp \in GoalPoses : MakePlan(sp, gp)
    \/ MakePlanAgain
    \/ PlanPass
    \/ PlanReturn
    \/ PlanOther
    \/ MakePlanFinish

SpecSeeded == InitSeeded /\ [][NextSeeded]_vars

\* ------------------------------------------------------------------ claims
InGrid(x, y) == x >= 0 /\ x < nx_ /\ y >= 0 /\ y < ny_
PosesOffGrid == ~world2Map(start_pose).ok \/ ~world2Map(goal_pose).ok
Returned == pc = "idle" /\ exit = "done"
InformedReturned == pc = "planned" /\ g_planner_ = "informed_rrt"

\* C1: every pass of the main loop of InformedRRT::plan advances the iteration
\* counter, so the loop makes at most sample_num_ passes.
C1_EveryPassCounts == passes = iteration /\ passes <= sample_num_

\* C2: a makePlan call on a wrapper with a planner whose start or goal is off
\* the grid has returned false with an empty plan and has not called plan(),
\* whatever the earlier calls left behind.
C2_OffGridFails ==
    (g_planner_ # NullPlanner /\ exit \notin {"none", "uninitialized"} /\ PosesOffGrid)
        => (pc = "idle" /\ ret = FALSE /\ plan = <<>> /\ ~planner_called)

C2_Witness ==
    /\ pc = "idle" /\ exit = "goal_off" /\ g_planner_ = "informed_rrt"
    /\ history_plan_ # <<>> /\ ret = FALSE /\ plan = <<>>

\* C3: after initialize with an unknown planner name no planner exists, the
\* null planner has not been dereferenced and the wrapper is not initialized.
C3_UnknownNameIsConfigError ==
    (planner_name_ \notin KnownPlanners \cup {""})
        => (g_planner_ = NullPlanner /\ ~null_deref /\ ~initialized_)

\* C4: a node returned by the ellipse sampler lies inside the grid.
C4_EllipseSampleInGrid ==
    sample_node # NoNode => InGrid(sample_node.x, sample_node.y)

\* C5: when InformedRRT::plan returns true the sample set's entry for the goal
\* cell has pid = best_parent and g = c_best_.
C5_GoalEntryIsBest ==
    (InformedReturned /\ path_found)
        => /\ sample_list_[goal_.id].pid = best_parent
           /\ sample_list_[goal_.id].g = c_best_

\* C6 as stated: the plan of a successful call has one waypoint per path node,
\* start to goal, the last one being the goal pose in place of the goal cell's.
C6_GoalReplacesLastWaypoint ==
    (Returned /\ path_found)
        => /\ Len(plan) = Len(path)
           /\ \A i \in 1 .. Len(path) - 1 :
                plan[i] = map2World(path[Len(path) + 1 - i][1], path[Len(path) + 1 - i][2])
           /\ plan[Len(plan)] = goal_pose

\* C6 amended: the plan of a successful call has one waypoint per path node,
\* start to goal (cell centres, the goal cell's included), followed by the
\* exact goal pose as one more waypoint.
C6_GoalAppendedAfterPath ==
    (Returned /\ path_found)
        => /\ Len(plan) = Len(path) + 1
           /\ \A i \in 1 .. Len(path) :
                plan[i] = map2World(path[Len(path) + 1 - i][1], path[Len(path) + 1 - i][2])
           /\ plan[1] = map2World(start_.x, start_.y)
           /\ plan[Len(path)] = map2World(goal_.x, goal_.y)
           /\ plan[Len(plan)] = goal_pose

C6_Witness ==
    /\ Returned /\ path_found /\ g_planner_ = "informed_rrt"
    /\ Len(path) >= 3 /\ Len(plan) = Len(path) + 1
    /\ goal_pose # map2World(goal_.x, goal_.y)

\* C7: the expansion trace of InformedRRT::plan never holds more than
\* sample_num_ + 1 nodes: the start and one node per counted iteration.
C7_ExpandBounded ==
    /\ Len(expand) <= sample_num_ + 1
    /\ (g_planner_ = "informed_rrt" /\ pc \in {"loop", "planned"})
           => Len(expand) = iteration + 1

C7_Witness ==
    /\ InformedReturned /\ Len(expand) = sample_num_ + 1 /\ passes > iteration

\* C8: within one plan() call c_best_ starts at DBL_MAX and never increases, it
\* changes exactly when best_parent does, and each pass samples uniformly
\* before the first goal connection and from the ellipse after it.
C8_BestCostMonotone ==
    [][ /\ (pc' = "loop" /\ passes' = 0) => (c_best_' = DBL_MAX /\ best_parent' = -1)
        /\ (pc = "loop" /\ pc' = "loop" /\ passes' = passes + 1)
             => /\ c_best_' <= c_best_
                /\ (c_best_' # c_best_) <=> (best_parent' # best_parent)
                /\ (best_parent = -1) <=> (c_best_ = DBL_MAX)
                /\ draw_mode' = IF best_parent = -1 THEN "uniform" ELSE "ellipse"
                /\ best_parent # -1 => best_parent' # -1 ]_vars

C8_Witness ==
    /\ pc = "loop" /\ draw_mode = "ellipse" /\ costmap = {}
    /\ Len(expand) >= 3
    /\ DistSq(expand[2], goal_) <= max_dist_ * max_dist_
    /\ best_parent = expand[Len(expand)].id

\* C9: a plan() call repeated with the same inputs under the same seed returns
\* the same success flag, path and expansion trace as the first one.
C9_SameSeedSameResult ==
    (pc = "planned" /\ first.valid)
        => (first.found = path_found /\ first.path = path /\ first.expand = expand)

C11_UninitializedCallIsChecked ==
    (planner_name_ = "" /\ ~initialized_ /\ exit # "none")
        => (pc = "idle" /\ exit = "uninitialized" /\ ret = FALSE /\ ~null_deref)

====
